---- MODULE Spec2Model ----
(***************************************************************************)
(* Model of the glacier / wildfire deposition analysis:                    *)
(*   - RGI_RAQDPS_Analysis (src/src/rgi_analysis.py): mask index,          *)
(*     hourly extraction loop, batch summary pipeline;                     *)
(*   - AthabascaGlacierAnalysis.analyze_period (src/src/athabasca_glacier.py);*)
(*   - RAQDPSGlacierAnalysis.load_raqdps_data (src/src/raqdps_glacier_coupling.py).*)
(*                                                                         *)
(* Time is counted in hours.  A grid is the set of its cell-centre         *)
(* coordinates (one row of cells: the lon array; the lat array is a single *)
(* fixed value).  A polygon is the set of cell-centre coordinates that lie *)
(* inside it.  A gridded field holds the same value in every cell, so the  *)
(* mean over a non-empty cell set is that value and the sum is the value   *)
(* times the number of cells.  Deposition values are non-negative, and the *)
(* float NaN is the marker NaN below.                                      *)
(***************************************************************************)
EXTENDS Integers, Sequences, FiniteSets, TLC

VARIABLES
    prog,           \* which entry point runs: "rgi", "athabasca", "coupling", "reingest"
    pc,             \* position: "Init", "Streaming", "Finalizing", "Done", "Aborted"
    error,          \* the exception that ended the run ("" while none)
    start_date,     \* first hour of the analysis window
    end_date,       \* last hour of the analysis window (inclusive)
    current_date,   \* loop variable current_date / current / date
    archive,        \* the files the loop has met on disk: hour -> file
    log,            \* hours printed as "Fichier manquant" / "Fichier non trouve"
    visited,        \* history: the hours the loop body ran for, in order
    glaciers,       \* self.glaciers: the registry, a sequence of glacier rows
    glacier_masks,  \* self.glacier_masks: "None" or "Regions"
    mask_array,     \* self.mask_array: [lon |-> coords, cell |-> {<<coord, number>>}]
    lastExtract,    \* history: the slice last extracted, the mask and registry it used,
                    \* and the cells read for each glacier
    results,        \* rgi: results, RGIId -> list of row dicts
    hourly_data,    \* athabasca: hourly_data, list of row dicts
    datasets,       \* coupling: datasets, list of loaded slices
    pending,        \* reingest: observation batches not yet arrived
    timeseries,     \* the DataFrames: key -> list of rows (derived columns included)
    derived,        \* keys of timeseries whose rolling / cumulative columns exist
    summary,        \* rgi: glacier_stats / summary_df, list of summary rows
    top10,          \* main: the ranked table printed after the pipeline
    report,         \* main: what create_summary_report returned or raised
    call,           \* the library function being called with its arguments
    ret             \* what the call returned or raised

vars == <<prog, pc, error, start_date, end_date, current_date, archive, log,
          visited, glaciers, glacier_masks, mask_array, lastExtract, results,
          hourly_data, datasets, pending, timeseries, derived, summary, top10,
          report, call, ret>>

----------------------------------------------------------------------------
(* Bounds of the model *)

MaxHour == 2
MaxGlaciers == 2
MaxSpan == 25
MaxLen == 4
MaxLag == 2
MaxSide == 10

Hours == 0..MaxHour

(* Program constants *)

\* rolling('24H') and rolling('7D'), in hours
Window24H == 24
Window7D == 168

\* float('nan'); every observation value is >= 0
NaN == -1

\* calculate_correlation needs this many paired valid points
MinPaired == 3

\* variables=['BC_dep', 'PM2.5_dep', 'PM10_dep'] (default of the rgi and athabasca loops)
DefaultVariables == <<"BC_dep", "PM2.5_dep", "PM10_dep">>

\* variables=['BC_dep', 'PM2.5_dep'] (default of the coupling loader)
CouplingVariables == <<"BC_dep", "PM2.5_dep">>

----------------------------------------------------------------------------
(* Inputs: grids, files, glaciers *)

GridA == {0, 1}
GridB == {1, 2}
Grids == {GridA, GridB}

AllVars == {"BC_dep", "PM2.5_dep", "PM10_dep"}
VarSets == {AllVars, {"BC_dep", "PM2.5_dep"}, {"PM10_dep"}, {}}
Vals == {0, 1}

\* The nominal file is on GridA, holds every variable, with value 1 in every
\* cell; a file differs from it in at most one respect.
Contents ==
    {c \in Grids \X VarSets \X Vals :
        Cardinality({k \in 1..3 : c[k] # <<GridA, AllVars, 1>>[k]}) <= 1}

Missing == [exists |-> FALSE]

\* No library function is being called
NoCall == [fn |-> ""]
NoReturn == [done |-> FALSE]

\* The call returns a value / raises an exception
Returned(v) == [done |-> TRUE, raised |-> "", value |-> v]
Raised(e) == [done |-> TRUE, raised |-> e]

\* What may be found under the file name of hour t: nothing, or a file that
\* holds the slice of that hour.
FileChoices(t) ==
    {Missing} \cup
    {[exists |-> TRUE, time |-> t, lon |-> c[1], vars |-> c[2], val |-> c[3]] :
        c \in Contents}

\* Glaciers of the inventory: G1 and G2 overlap on coordinate 1, G3 lies
\* outside both grids.
GlacierPool ==
    { [RGIId |-> "G1", Area |-> 5, geometry |-> {0, 1}],
      [RGIId |-> "G2", Area |-> 1, geometry |-> {1, 2}],
      [RGIId |-> "G3", Area |-> 3, geometry |-> {3}] }

\* Lexicographic rank of the identifiers of the pool
IdRank(id) == CASE id = "G1" -> 1 [] id = "G2" -> 2 [] id = "G3" -> 3

Injective(s) == \A i, j \in DOMAIN s : i # j => s[i] # s[j]

Registries ==
    {s \in UNION {[1..n -> GlacierPool] : n \in 0..MaxGlaciers} : Injective(s)}

RGIIds(reg) == {reg[k].RGIId : k \in DOMAIN reg}

----------------------------------------------------------------------------
(* pandas / xarray reductions over columns with NaN *)

RECURSIVE SumOver(_, _)
SumOver(S, f) ==
    IF S = {} THEN 0
    ELSE LET j == CHOOSE j \in S : TRUE IN f[j] + SumOver(S \ {j}, f)

ValidIdx(xs, S) == {j \in S : xs[j] # NaN}

\* Series.sum(): NaN skipped, 0 for no valid value
SeriesSum(xs) == SumOver(ValidIdx(xs, DOMAIN xs), xs)

\* Series.max(): NaN skipped, NaN for no valid value
SeriesMax(xs) ==
    LET V == ValidIdx(xs, DOMAIN xs)
    IN  IF V = {} THEN NaN
        ELSE xs[CHOOSE j \in V : \A k \in V : xs[k] <= xs[j]]

Abs(n) == IF n < 0 THEN -n ELSE n

RECURSIVE GCD(_, _)
GCD(a, b) == IF b = 0 THEN a ELSE GCD(b, a % b)

\* A float that is the fraction num / den in lowest terms
Frac(num, den) == [nan |-> FALSE, num |-> num \div GCD(num, den), den |-> den \div GCD(num, den)]

\* Variant: the window of row i also holds the row exactly W before it.
RollingSumBothEnds(ts, xs, W) ==
    [i \in DOMAIN xs |->
        LET V == ValidIdx(xs, {j \in 1..i : Abs(ts[i] - ts[j]) <= W})
        IN  IF V = {} THEN NaN ELSE SumOver(V, xs)]

\* Variant: the window of row i ends before row i.
RollingSumBeforeRow(ts, xs, W) ==
    [i \in DOMAIN xs |->
        LET V == ValidIdx(xs, {j \in 1..(i - 1) : Abs(ts[i] - ts[j]) < W})
        IN  IF V = {} THEN NaN ELSE SumOver(V, xs)]

\* Series.rolling(offset).sum() over a monotonic time index ts: the window of
\* row i holds the rows up to i whose time is less than W away (min_periods
\* is 1 for an offset window: NaN when the window holds no valid value).
RollingSum(ts, xs, W) ==
    [i \in DOMAIN xs |->
        LET V == ValidIdx(xs, {j \in 1..i : Abs(ts[i] - ts[j]) < W})
        IN  IF V = {} THEN NaN ELSE SumOver(V, xs)]

\* Series.rolling(offset).mean(): the mean of the valid values of the same
\* window as a fraction, missing (NaN) when the window holds no valid value.
RollingMean(ts, xs, W) ==
    [i \in DOMAIN xs |->
        LET V == ValidIdx(xs, {j \in 1..i : Abs(ts[i] - ts[j]) < W})
        IN  IF V = {} THEN [missing |-> TRUE]
            ELSE [missing |-> FALSE, num |-> SumOver(V, xs), den |-> Cardinality(V)]]

\* Series.cumsum(): NaN stays NaN and is skipped by the running total
CumSum(xs) ==
    [i \in DOMAIN xs |->
        IF xs[i] = NaN THEN NaN ELSE SumOver(ValidIdx(xs, 1..i), xs)]

MonotonicIncreasing(ts) == \A i, j \in DOMAIN ts : i <= j => ts[i] <= ts[j]
MonotonicDecreasing(ts) == \A i, j \in DOMAIN ts : i <= j => ts[i] >= ts[j]

\* A DataFrame is a list of rows [time, col]; a column a row does not hold
\* reads NaN.
Col(row, c) == IF c \in DOMAIN row.col THEN row.col[c] ELSE NaN
Column(df, c) == [i \in DOMAIN df |-> Col(df[i], c)]
Times(df) == [i \in DOMAIN df |-> df[i].time]
Columns(df) == UNION {DOMAIN df[i].col : i \in DOMAIN df}

\* df[name] = values
WithColumn(df, c, xs) ==
    [i \in DOMAIN df |->
        [df[i] EXCEPT !.col =
            [k \in DOMAIN df[i].col \cup {c} |-> IF k = c THEN xs[i] ELSE df[i].col[k]]]]

----------------------------------------------------------------------------
(* Grid-to-polygon mask index: regionmask.Regions(...).mask(lons, lats) *)

\* Variant: a region's number is added to a cell without replacing the
\* number an earlier region wrote there.
BurnMerge(outlines, lon, k, cell) ==
    cell \cup {<<c, k - 1>> : c \in outlines[k] \cap lon}

\* Burning region k into the 2D mask: its cells take its number, replacing
\* what an earlier region wrote there.
BurnRegion(outlines, lon, k, cell) ==
    {p \in cell : p[1] \notin outlines[k]} \cup
    {<<c, k - 1>> : c \in outlines[k] \cap lon}

RECURSIVE Rasterize(_, _, _, _)
Rasterize(outlines, lon, k, cell) ==
    IF k > Len(outlines) THEN cell
    ELSE Rasterize(outlines, lon, k + 1, BurnRegion(outlines, lon, k, cell))

\* Some grid point lies in more than one region.
RegionsOverlap(outlines, lon) ==
    \E c \in lon : \E i, j \in DOMAIN outlines :
        i # j /\ c \in outlines[i] /\ c \in outlines[j]

\* numbers = range(len(glaciers)), outlines = geometry: the mask array built
\* for the grid lon.  With overlapping regions the library either assigns the
\* point to the region with the higher number or raises ValueError,
\* depending on its version.
RegionMaskOutcomes(reg, lon) ==
    LET outlines == [k \in DOMAIN reg |-> reg[k].geometry]
    IN  {[ok |-> TRUE,
          mask_array |-> [lon |-> lon, cell |-> Rasterize(outlines, lon, 1, {})]]}
        \cup
        (IF RegionsOverlap(outlines, lon) THEN {[ok |-> FALSE]} ELSE {})

NoMask == [lon |-> {}, cell |-> {}]

\* No slice has been extracted yet
NoExtract == [time |-> -1, lon |-> {}, mask_lon |-> {}, registry |-> <<>>, cells |-> <<>>]

\* mask = (self.mask_array == i): the cells labelled i
MaskCells(m, i) == {c \in m.lon : <<c, i>> \in m.cell}

----------------------------------------------------------------------------
(* Deposition extractor of the rgi loop (lines 107-122) *)

\* ds[var].where(mask): aligned on the coordinates common to slice and mask
WhereCells(ds, m, i) == MaskCells(m, i) \cap ds.lon

\* float(ds[var].where(mask).mean()): NaN over no cell
DepMean(ds, cells) == IF cells = {} THEN NaN ELSE ds.val

\* float(ds[var].where(mask).sum()): 0 over no cell
DepSum(ds, cells) == ds.val * Cardinality(cells)

\* The dict appended for one variable and one glacier
RgiRow(ds, t, var, cells) ==
    [time |-> t,
     col |-> [c \in {<<var, "mean">>, <<var, "sum">>} |->
                IF c[2] = "mean" THEN DepMean(ds, cells) ELSE DepSum(ds, cells)]]

\* The rows one slice adds to the list of glacier number i: one per
\* requested variable present in the slice, in the order of variables.
RECURSIVE RgiSliceRows(_, _, _, _, _, _)
RgiSliceRows(ds, t, m, i, variables, k) ==
    IF k > Len(variables) THEN <<>>
    ELSE (IF variables[k] \in ds.vars
             THEN <<RgiRow(ds, t, variables[k], WhereCells(ds, m, i))>>
             ELSE <<>>)
         \o RgiSliceRows(ds, t, m, i, variables, k + 1)

\* Position of a glacier identifier in the registry (enumerate)
IndexOf(reg, id) == CHOOSE k \in DOMAIN reg : reg[k].RGIId = id

----------------------------------------------------------------------------
(* RGI_RAQDPS_Analysis: extract_deposition_timeseries and batch_analysis_pipeline *)

RGI_Start ==
    /\ prog = "rgi" /\ pc = "Init"
    /\ results' = [id \in RGIIds(glaciers) |-> <<>>]
    /\ current_date' = start_date
    /\ pc' = "Streaming"
    /\ UNCHANGED <<report, top10, call, ret, prog, error, start_date, end_date, archive, log, visited,
                   glaciers, glacier_masks, mask_array, lastExtract,
                   hourly_data, datasets, pending, timeseries, derived, summary>>

\* One iteration of the while loop: open the file of current_date.
RGI_Stream ==
    /\ prog = "rgi" /\ pc = "Streaming" /\ current_date <= end_date
    /\ \E ds \in FileChoices(current_date) :
        /\ archive' = [t \in DOMAIN archive \cup {current_date} |->
                          IF t = current_date THEN ds ELSE archive[t]]
        /\ visited' = Append(visited, current_date)
        /\ IF ~ds.exists
           THEN \* except FileNotFoundError
                /\ log' = log \cup {current_date}
                /\ current_date' = current_date + 1
                /\ UNCHANGED <<pc, error, glacier_masks, mask_array,
                               lastExtract, results>>
           ELSE \E built \in (IF glacier_masks = "None"
                                 THEN RegionMaskOutcomes(glaciers, ds.lon)
                                 ELSE {[ok |-> TRUE, mask_array |-> mask_array]}) :
                IF ~built.ok
                THEN \* ValueError out of create_glacier_regions_mask
                     /\ pc' = "Aborted"
                     /\ error' = "ValueError"
                     /\ UNCHANGED <<log, current_date, glacier_masks,
                                    mask_array, lastExtract, results>>
                ELSE /\ glacier_masks' = "Regions"
                     /\ mask_array' = built.mask_array
                     /\ lastExtract' =
                          [time |-> current_date, lon |-> ds.lon,
                           mask_lon |-> built.mask_array.lon,
                           registry |-> glaciers,
                           cells |-> [id \in DOMAIN results |->
                                        MaskCells(built.mask_array,
                                                  IndexOf(glaciers, id) - 1)]]
                     /\ results' =
                          [id \in DOMAIN results |->
                              results[id] \o
                              RgiSliceRows(ds, current_date, built.mask_array,
                                           IndexOf(glaciers, id) - 1,
                                           DefaultVariables, 1)]
                     /\ current_date' = current_date + 1
                     /\ UNCHANGED <<pc, error, log>>
    /\ UNCHANGED <<report, top10, call, ret, prog, start_date, end_date, glaciers, hourly_data, datasets,
                   pending, timeseries, derived, summary>>

\* End of the loop: the lists become DataFrames indexed by time.
RGI_Convert ==
    /\ prog = "rgi" /\ pc = "Streaming" /\ current_date > end_date
    /\ timeseries' = [id \in {g \in DOMAIN results : results[g] # <<>>} |-> results[id]]
    /\ pc' = "Finalizing"
    /\ UNCHANGED <<report, top10, call, ret, prog, error, start_date, end_date, current_date, archive, log,
                   visited, glaciers, glacier_masks, mask_array, lastExtract,
                   results, hourly_data, datasets, pending, derived, summary>>

BC7 == <<"BC", "cumul_7d">>
PM7 == <<"PM25", "cumul_7d">>

\* df['BC_cumul_7d'], df['PM25_cumul_7d']
RgiDerive(df) ==
    LET d1 == WithColumn(df, BC7,
                 RollingSum(Times(df), Column(df, <<"BC_dep", "sum">>), Window7D))
    IN  WithColumn(d1, PM7,
                 RollingSum(Times(d1), Column(d1, <<"PM2.5_dep", "sum">>), Window7D))

\* The stats dict of one glacier
RgiStats(reg, id, df) ==
    [RGIId |-> id,
     Area_km2 |-> reg[IndexOf(reg, id)].Area,
     BC_total |-> SeriesSum(Column(df, <<"BC_dep", "sum">>)),
     BC_max_7d |-> SeriesMax(Column(df, BC7)),
     PM25_total |-> SeriesSum(Column(df, <<"PM2.5_dep", "sum">>)),
     PM25_max_7d |-> SeriesMax(Column(df, PM7)),
     n_hours_data |-> Len(df)]

\* The glaciers of the registry that have a DataFrame, in dict order
RECURSIVE SeriesOrder(_, _, _)
SeriesOrder(reg, keys, k) ==
    IF k > Len(reg) THEN <<>>
    ELSE (IF reg[k].RGIId \in keys THEN <<reg[k].RGIId>> ELSE <<>>)
         \o SeriesOrder(reg, keys, k + 1)

\* Step 2 of batch_analysis_pipeline: derived columns and the summary table.
RGI_Finalize ==
    /\ prog = "rgi" /\ pc = "Finalizing"
    /\ IF \E id \in DOMAIN timeseries :
            ~({<<"BC_dep", "sum">>, <<"PM2.5_dep", "sum">>} \subseteq Columns(timeseries[id]))
       THEN \* df['BC_dep_sum'] / df['PM2.5_dep_sum']: no such column
            /\ pc' = "Aborted"
            /\ error' = "KeyError"
            /\ UNCHANGED <<timeseries, derived, summary>>
       ELSE LET ts == [id \in DOMAIN timeseries |-> RgiDerive(timeseries[id])]
                order == SeriesOrder(glaciers, DOMAIN timeseries, 1)
            IN  /\ timeseries' = ts
                /\ derived' = DOMAIN timeseries
                /\ summary' = [k \in DOMAIN order |-> RgiStats(glaciers, order[k], ts[order[k]])]
                /\ pc' = "Done"
                /\ UNCHANGED error
    /\ UNCHANGED <<report, top10, call, ret, prog, start_date, end_date, current_date, archive, log,
                   visited, glaciers, glacier_masks, mask_array, lastExtract,
                   results, hourly_data, datasets, pending>>

\* DataFrame.sort_values(column, ascending=False) with a stable sort: the
\* rows of S by falling value, rows of equal value in their order in df
RECURSIVE SortDescending(_, _, _)
SortDescending(df, column, S) ==
    IF S = {} THEN <<>>
    ELSE LET i == CHOOSE i \in S : \A j \in S :
                      \/ df[j][column] < df[i][column]
                      \/ (df[j][column] = df[i][column] /\ i <= j)
         IN  <<df[i]>> \o SortDescending(df, column, S \ {i})

\* DataFrame.nlargest(n, column) (keep='first'): the n rows of largest
\* value in falling order, ties in their order of appearance
nlargest(df, n, column) ==
    LET sorted == SortDescending(df, column, DOMAIN df)
    IN  SubSeq(sorted, 1, IF n < Len(sorted) THEN n ELSE Len(sorted))

\* summary.nlargest(10, 'BC_total')
TopRows == 10

\* main, after the pipeline has returned summary_df: the top 10 by BC_total.
\* A summary built from no stats dict has no column BC_total.
RGI_Rank ==
    /\ prog = "rgi" /\ pc = "Done" /\ ~top10.done
    /\ top10' = IF summary = <<>> THEN Raised("KeyError")
                ELSE Returned(nlargest(summary, TopRows, "BC_total"))
    /\ UNCHANGED <<report, call, ret, prog, pc, error, start_date, end_date,
                   current_date, archive, log, visited, glaciers, glacier_masks,
                   mask_array, lastExtract, results, hourly_data, datasets,
                   pending, timeseries, derived, summary>>

----------------------------------------------------------------------------
(* AthabascaGlacierAnalysis: load_raqdps_hourly, extract_glacier_data, analyze_period *)

\* Coordinates inside the glacier's bounding box widened by the 0.1 degree buffer
AthabascaBox == {1, 2}

AthStats == {"mean", "max", "sum", "center"}

\* extract_glacier_data: one dict per slice, holding the statistics over the
\* region of interest of every requested variable the slice has; the time is
\* read from the slice.
AthRow(ds, variables) ==
    LET roi == ds.lon \cap AthabascaBox
        present == {variables[k] : k \in DOMAIN variables} \cap ds.vars
    IN  [time |-> ds.time,
         col |-> [c \in present \X AthStats |->
                    IF c[2] = "sum" THEN ds.val * Cardinality(roi) ELSE ds.val]]

\* for var in variables: the three derived columns of each variable that has
\* a sum column
RECURSIVE AthDerive(_, _, _)
AthDerive(df, variables, k) ==
    IF k > Len(variables) THEN df
    ELSE LET var == variables[k]
             xs == Column(df, <<var, "sum">>)
             d1 == WithColumn(df, <<var, "cumul_24h">>, RollingSum(Times(df), xs, Window24H))
             d2 == WithColumn(d1, <<var, "cumul_7d">>, RollingSum(Times(df), xs, Window7D))
             d3 == WithColumn(d2, <<var, "cumul_total">>, CumSum(xs))
         IN  AthDerive(IF <<var, "sum">> \in Columns(df) THEN d3 ELSE df,
                       variables, k + 1)

\* Lines 168-178 on a list of row dicts.  A time-based rolling window needs
\* a monotonic index (increasing or decreasing): on any other index
\* rolling() raises ValueError.  Without a sum column nothing is rolled.
AthRecompute(rows, variables) ==
    LET rolls == \E k \in DOMAIN variables : <<variables[k], "sum">> \in Columns(rows)
    IN  IF ~rolls \/ MonotonicIncreasing(Times(rows)) \/ MonotonicDecreasing(Times(rows))
        THEN [ok |-> TRUE, df |-> AthDerive(rows, variables, 1)]
        ELSE [ok |-> FALSE]

Ath_Start ==
    /\ prog = "athabasca" /\ pc = "Init"
    /\ hourly_data' = <<>>
    /\ current_date' = start_date
    /\ pc' = "Streaming"
    /\ UNCHANGED <<report, top10, call, ret, prog, error, start_date, end_date, archive, log, visited,
                   glaciers, glacier_masks, mask_array, lastExtract, results,
                   datasets, pending, timeseries, derived, summary>>

\* Variant: a missing hour is entered as a row of zeros.
AthSliceRowsZeroFill(ds, t, variables) ==
    IF ds.exists THEN <<AthRow(ds, variables)>>
    ELSE <<[time |-> t,
            col |-> [c \in {variables[k] : k \in DOMAIN variables} \X AthStats |-> 0]]>>

\* What the slice of hour t adds to hourly_data: nothing for a missing file
\* (load_raqdps_hourly returns None), one dict otherwise.
AthSliceRows(ds, t, variables) ==
    IF ds.exists THEN <<AthRow(ds, variables)>> ELSE <<>>

\* Variant: the rolling and cumulative columns are refreshed after every slice.
Ath_StreamRecomputing ==
    /\ prog = "athabasca" /\ pc = "Streaming" /\ current_date <= end_date
    /\ \E ds \in FileChoices(current_date) :
        /\ archive' = [t \in DOMAIN archive \cup {current_date} |->
                          IF t = current_date THEN ds ELSE archive[t]]
        /\ log' = IF ds.exists THEN log ELSE log \cup {current_date}
        /\ hourly_data' = hourly_data \o AthSliceRows(ds, current_date, DefaultVariables)
    /\ timeseries' = IF hourly_data' = <<>> THEN <<>>
                     ELSE [id \in {"athabasca"} |-> AthDerive(hourly_data', DefaultVariables, 1)]
    /\ derived' = DOMAIN timeseries'
    /\ visited' = Append(visited, current_date)
    /\ current_date' = current_date + 1
    /\ UNCHANGED <<report, top10, call, ret, prog, pc, error, start_date, end_date, glaciers,
                   glacier_masks, mask_array, lastExtract, results, datasets,
                   pending, summary>>

\* One iteration of the while loop of analyze_period.
Ath_Stream ==
    /\ prog = "athabasca" /\ pc = "Streaming" /\ current_date <= end_date
    /\ \E ds \in FileChoices(current_date) :
        /\ archive' = [t \in DOMAIN archive \cup {current_date} |->
                          IF t = current_date THEN ds ELSE archive[t]]
        /\ log' = IF ds.exists THEN log ELSE log \cup {current_date}
        /\ hourly_data' = hourly_data \o AthSliceRows(ds, current_date, DefaultVariables)
    /\ visited' = Append(visited, current_date)
    /\ current_date' = current_date + 1
    /\ UNCHANGED <<report, top10, call, ret, prog, pc, error, start_date, end_date, glaciers,
                   glacier_masks, mask_array, lastExtract, results, datasets,
                   pending, timeseries, derived, summary>>

\* End of the loop: df = pd.DataFrame(hourly_data)
Ath_Convert ==
    /\ prog = "athabasca" /\ pc = "Streaming" /\ current_date > end_date
    /\ timeseries' = IF hourly_data = <<>> THEN <<>>
                     ELSE [id \in {"athabasca"} |-> hourly_data]
    /\ pc' = "Finalizing"
    /\ UNCHANGED <<report, top10, call, ret, prog, error, start_date, end_date, current_date, archive, log,
                   visited, glaciers, glacier_masks, mask_array, lastExtract,
                   results, hourly_data, datasets, pending, derived, summary>>

\* if len(df) > 0: derived columns, save, return df; else return None.
Recompute ==
    /\ pc = "Finalizing"
    /\ IF DOMAIN timeseries = {}
       THEN /\ pc' = "Done"
            /\ UNCHANGED <<error, timeseries, derived>>
       ELSE LET out == AthRecompute(timeseries["athabasca"], DefaultVariables) IN
            IF out.ok
            THEN /\ timeseries' = [id \in {"athabasca"} |-> out.df]
                 /\ derived' = {"athabasca"}
                 /\ pc' = "Done"
                 /\ UNCHANGED error
            ELSE /\ pc' = "Aborted"
                 /\ error' = "ValueError"
                 /\ UNCHANGED <<timeseries, derived>>
    /\ UNCHANGED <<report, top10, call, ret, prog, start_date, end_date, current_date, archive, log,
                   visited, glaciers, glacier_masks, mask_array, lastExtract,
                   results, hourly_data, datasets, pending, summary>>

Ath_Finalize == prog = "athabasca" /\ Recompute

ReportStats == {"total_kg", "max_horaire", "max_24h", "max_7j"}

\* df[column].max() if column in df else np.nan
MaxIfPresent(df, c) == IF c \in Columns(df) THEN SeriesMax(Column(df, c)) ELSE NaN

\* create_summary_report(df): the hours analysed, the missing-data
\* percentage (1 - len(df) / hours from the first to the last index) * 100
\* and the deposition statistics of every variable that has a sum column.
\* The hours are a float: dividing by 0.0 raises ZeroDivisionError.
create_summary_report(df) ==
    LET n == Len(df)
        hours == Times(df)[n] - Times(df)[1]
        present == {v \in AllVars : <<v, "sum">> \in Columns(df)}
    IN  IF hours = 0 THEN Raised("ZeroDivisionError")
        ELSE Returned(
               [n_hours |-> n,
                missing_pct |-> Frac(100 * (hours - n), hours),
                stats |-> [c \in present \X ReportStats |->
                             CASE c[2] = "total_kg" -> SeriesSum(Column(df, <<c[1], "sum">>))
                               [] c[2] = "max_horaire" -> SeriesMax(Column(df, <<c[1], "sum">>))
                               [] c[2] = "max_24h" -> MaxIfPresent(df, <<c[1], "cumul_24h">>)
                               [] c[2] = "max_7j" -> MaxIfPresent(df, <<c[1], "cumul_7d">>)]])

\* main: if df is not None: summary = analysis.create_summary_report(df)
Ath_Report ==
    /\ prog = "athabasca" /\ pc = "Done" /\ ~report.done
    /\ "athabasca" \in DOMAIN timeseries
    /\ report' = create_summary_report(timeseries["athabasca"])
    /\ UNCHANGED <<top10, call, ret, prog, pc, error, start_date, end_date,
                   current_date, archive, log, visited, glaciers, glacier_masks,
                   mask_array, lastExtract, results, hourly_data, datasets,
                   pending, timeseries, derived, summary>>

----------------------------------------------------------------------------
(* RAQDPSGlacierAnalysis.load_raqdps_data *)

Cpl_Start ==
    /\ prog = "coupling" /\ pc = "Init"
    /\ datasets' = <<>>
    /\ current_date' = start_date
    /\ pc' = "Streaming"
    /\ UNCHANGED <<report, top10, call, ret, prog, error, start_date, end_date, archive, log, visited,
                   glaciers, glacier_masks, mask_array, lastExtract, results,
                   hourly_data, pending, timeseries, derived, summary>>

\* One iteration of the for loop over pd.date_range(date_start, date_end).
Cpl_Stream ==
    /\ prog = "coupling" /\ pc = "Streaming" /\ current_date <= end_date
    /\ \E ds \in FileChoices(current_date) :
        /\ archive' = [t \in DOMAIN archive \cup {current_date} |->
                          IF t = current_date THEN ds ELSE archive[t]]
        /\ IF ~ds.exists
           THEN \* except FileNotFoundError: continue
                /\ log' = log \cup {current_date}
                /\ current_date' = current_date + 1
                /\ UNCHANGED <<pc, error, datasets>>
           ELSE IF ~({CouplingVariables[k] : k \in DOMAIN CouplingVariables}
                        \subseteq ds.vars)
                THEN \* ds[variables]: a listed variable is not in the file
                     /\ pc' = "Aborted"
                     /\ error' = "KeyError"
                     /\ UNCHANGED <<log, current_date, datasets>>
                ELSE /\ datasets' = Append(datasets, ds)
                     /\ current_date' = current_date + 1
                     /\ UNCHANGED <<pc, error, log>>
    /\ visited' = Append(visited, current_date)
    /\ UNCHANGED <<report, top10, call, ret, prog, start_date, end_date, glaciers, glacier_masks,
                   mask_array, lastExtract, results, hourly_data, pending,
                   timeseries, derived, summary>>

\* return xr.concat(datasets, dim='time'): ValueError on an empty list
Cpl_Concat ==
    /\ prog = "coupling" /\ pc = "Streaming" /\ current_date > end_date
    /\ IF datasets = <<>>
       THEN pc' = "Aborted" /\ error' = "ValueError"
       ELSE pc' = "Done" /\ UNCHANGED error
    /\ UNCHANGED <<report, top10, call, ret, prog, start_date, end_date, current_date, archive, log,
                   visited, glaciers, glacier_masks, mask_array, lastExtract,
                   results, hourly_data, datasets, pending, timeseries,
                   derived, summary>>

----------------------------------------------------------------------------
(* Ingestion in arrival order followed by the recompute of analyze_period *)

\* The observation batches of a window: one dict per hour whose file exists
BatchesOf(files) ==
    {AthRow(files[t], DefaultVariables) : t \in {h \in DOMAIN files : files[h].exists}}

\* hourly_data.append(data) for a batch that has arrived
Arrive ==
    /\ prog = "reingest" /\ pc = "Streaming"
    /\ \E b \in pending :
        /\ hourly_data' = Append(hourly_data, b)
        /\ pending' = pending \ {b}
    /\ UNCHANGED <<report, top10, call, ret, prog, pc, error, start_date, end_date, current_date, archive,
                   log, visited, glaciers, glacier_masks, mask_array,
                   lastExtract, results, datasets, timeseries, derived, summary>>

\* Every batch has arrived: df = pd.DataFrame(hourly_data)
ArrivedAll ==
    /\ prog = "reingest" /\ pc = "Streaming" /\ pending = {}
    /\ timeseries' = IF hourly_data = <<>> THEN <<>>
                     ELSE [id \in {"athabasca"} |-> hourly_data]
    /\ pc' = "Finalizing"
    /\ UNCHANGED <<report, top10, call, ret, prog, error, start_date, end_date, current_date, archive, log,
                   visited, glaciers, glacier_masks, mask_array, lastExtract,
                   results, hourly_data, datasets, pending, derived, summary>>

ReingestRecompute == prog = "reingest" /\ Recompute

----------------------------------------------------------------------------

Progs == {"rgi", "athabasca", "coupling"}

Init ==
    /\ prog \in Progs
    /\ pc = "Init"
    /\ error = ""
    /\ start_date \in Hours
    /\ end_date \in Hours
    /\ current_date = 0
    /\ archive = <<>>
    /\ log = {}
    /\ visited = <<>>
    /\ glaciers \in (IF prog = "rgi" THEN Registries ELSE {<<>>})
    /\ glacier_masks = "None"
    /\ mask_array = NoMask
    /\ lastExtract = NoExtract
    /\ results = <<>>
    /\ hourly_data = <<>>
    /\ datasets = <<>>
    /\ pending = {}
    /\ timeseries = <<>>
    /\ derived = {}
    /\ summary = <<>>
    /\ top10 = NoReturn
    /\ report = NoReturn
    /\ call = NoCall
    /\ ret = NoReturn

Next ==
    \/ RGI_Start
    \/ RGI_Stream
    \/ RGI_Convert
    \/ RGI_Finalize
    \/ RGI_Rank
    \/ Ath_Start
    \/ Ath_Stream
    \/ Ath_Convert
    \/ Ath_Finalize
    \/ Ath_Report
    \/ Cpl_Start
    \/ Cpl_Stream
    \/ Cpl_Concat

Spec == Init /\ [][Next]_vars

\* The batches produced for the hours of an archive whose files hold some
\* tracked variable, arriving in any order
InitOrder ==
    /\ prog = "reingest"
    /\ pc = "Streaming"
    /\ error = ""
    /\ start_date = 0
    /\ end_date = MaxHour
    /\ current_date = MaxHour + 1
    /\ archive \in {f \in [Hours -> UNION {FileChoices(t) : t \in Hours}] :
                       \A t \in Hours : /\ f[t] \in FileChoices(t)
                                        /\ f[t].exists => f[t].vars # {}}
    /\ log = {}
    /\ visited = <<>>
    /\ glaciers = <<>>
    /\ glacier_masks = "None"
    /\ mask_array = NoMask
    /\ lastExtract = NoExtract
    /\ results = <<>>
    /\ hourly_data = <<>>
    /\ datasets = <<>>
    /\ pending = BatchesOf(archive)
    /\ timeseries = <<>>
    /\ derived = {}
    /\ summary = <<>>
    /\ top10 = NoReturn
    /\ report = NoReturn
    /\ call = NoCall
    /\ ret = NoReturn

NextOrder ==
    \/ Arrive
    \/ ArrivedAll
    \/ ReingestRecompute

SpecOrder == InitOrder /\ [][NextOrder]_vars

----------------------------------------------------------------------------
(* analyze_period at the end of its loop over a window longer than a day *)

\* The window: hours 0..MaxSpan
SpanHours == 0..MaxSpan

\* The files of the window that hold every tracked variable
FullContents == {c \in Contents : c[2] = AllVars}

\* An archive of the window: the files of the hours a..b-1 are missing, the
\* files before them hold c1 and those after them hold c2.
SpanArchive(a, b, c1, c2) ==
    [t \in SpanHours |->
        IF a <= t /\ t < b THEN Missing
        ELSE LET c == IF t < a THEN c1 ELSE c2
             IN  [exists |-> TRUE, time |-> t, lon |-> c[1], vars |-> c[2], val |-> c[3]]]

SpanArchives ==
    {SpanArchive(a, b, c1, c2) :
        a \in 0..(MaxSpan + 1), b \in 0..(MaxSpan + 1), c1 \in FullContents, c2 \in FullContents}

\* hourly_data after the while loop has run over the hours t..MaxSpan
RECURSIVE LoopRows(_, _)
LoopRows(files, t) ==
    IF t > MaxSpan THEN <<>>
    ELSE AthSliceRows(files[t], t, DefaultVariables) \o LoopRows(files, t + 1)

InitSeries ==
    /\ prog = "athabasca"
    /\ pc = "Streaming"
    /\ error = ""
    /\ start_date = 0
    /\ end_date = MaxSpan
    /\ current_date = MaxSpan + 1
    /\ archive \in SpanArchives
    /\ log = {t \in SpanHours : ~archive[t].exists}
    /\ visited = [i \in 1..(MaxSpan + 1) |-> i - 1]
    /\ glaciers = <<>>
    /\ glacier_masks = "None"
    /\ mask_array = NoMask
    /\ lastExtract = NoExtract
    /\ results = <<>>
    /\ hourly_data = LoopRows(archive, 0)
    /\ datasets = <<>>
    /\ pending = {}
    /\ timeseries = <<>>
    /\ derived = {}
    /\ summary = <<>>
    /\ top10 = NoReturn
    /\ report = NoReturn
    /\ call = NoCall
    /\ ret = NoReturn

NextSeries ==
    \/ Ath_Convert
    \/ Ath_Finalize

SpecSeries == InitSeries /\ [][NextSeries]_vars

----------------------------------------------------------------------------
(* The two pipelines at the end of their loop over a window of a week *)

\* The window: hours 0..WeekEnd
WeekEnd == Window7D + 1

\* The hours of the window that may have a file: its first hour and the
\* hours one week after it, give or take one
EdgeHours == {0, Window7D - 1, Window7D, Window7D + 1}

\* What such an hour holds: <<>> for no file, or the contents of a file on
\* GridA
WeekContents == {<<>>} \cup {c \in Contents : c[1] = GridA}

WeekArchive(pick) ==
    [t \in 0..WeekEnd |->
        IF t \in EdgeHours /\ pick[t] # <<>>
        THEN [exists |-> TRUE, time |-> t, lon |-> pick[t][1], vars |-> pick[t][2],
              val |-> pick[t][3]]
        ELSE Missing]

WeekArchives == {WeekArchive(pick) : pick \in [EdgeHours -> WeekContents]}

\* The hours of S that have a file
Met(files, S) == {t \in S : files[t].exists}

\* hourly_data after the while loop of analyze_period has run over the
\* hours of S in rising order (an hour without a file adds nothing)
RECURSIVE AthRowsThrough(_, _)
AthRowsThrough(files, S) ==
    IF Met(files, S) = {} THEN <<>>
    ELSE LET t == CHOOSE t \in Met(files, S) : \A u \in Met(files, S) : t <= u
         IN  AthSliceRows(files[t], t, DefaultVariables)
             \o AthRowsThrough(files, {u \in S : u > t})

\* results[glacier_id] of glacier number i after the while loop of
\* extract_deposition_timeseries has run over the hours of S in rising
\* order with the mask m
RECURSIVE RgiRowsThrough(_, _, _, _)
RgiRowsThrough(files, S, m, i) ==
    IF Met(files, S) = {} THEN <<>>
    ELSE LET t == CHOOSE t \in Met(files, S) : \A u \in Met(files, S) : t <= u
         IN  RgiSliceRows(files[t], t, m, i, DefaultVariables, 1)
             \o RgiRowsThrough(files, {u \in S : u > t}, m, i)

\* The registry of the week-long run: one glacier, covered by GridA
WeekRegistry == <<[RGIId |-> "G1", Area |-> 5, geometry |-> {0, 1}]>>

WeekMask == [lon |-> GridA, cell |-> Rasterize(<<{0, 1}>>, GridA, 1, {})]

InitWeek ==
    /\ prog \in {"athabasca", "rgi"}
    /\ pc = "Streaming"
    /\ error = ""
    /\ start_date = 0
    /\ end_date = WeekEnd
    /\ current_date = WeekEnd + 1
    /\ archive \in WeekArchives
    /\ log = {t \in 0..WeekEnd : ~archive[t].exists}
    /\ visited = [i \in 1..(WeekEnd + 1) |-> i - 1]
    /\ glaciers = IF prog = "rgi" THEN WeekRegistry ELSE <<>>
    /\ LET met == Met(archive, 0..WeekEnd)
           last == CHOOSE t \in met : \A u \in met : u <= t
       IN  IF prog = "rgi" /\ met # {}
           THEN /\ glacier_masks = "Regions"
                /\ mask_array = WeekMask
                /\ lastExtract = [time |-> last, lon |-> GridA, mask_lon |-> GridA,
                                  registry |-> WeekRegistry,
                                  cells |-> [id \in {"G1"} |-> MaskCells(WeekMask, 0)]]
           ELSE /\ glacier_masks = "None"
                /\ mask_array = NoMask
                /\ lastExtract = NoExtract
    /\ results = IF prog = "rgi"
                 THEN [id \in {"G1"} |-> RgiRowsThrough(archive, 0..WeekEnd, WeekMask, 0)]
                 ELSE <<>>
    /\ hourly_data = IF prog = "athabasca" THEN AthRowsThrough(archive, 0..WeekEnd) ELSE <<>>
    /\ datasets = <<>>
    /\ pending = {}
    /\ timeseries = <<>>
    /\ derived = {}
    /\ summary = <<>>
    /\ top10 = NoReturn
    /\ report = NoReturn
    /\ call = NoCall
    /\ ret = NoReturn

NextWeek ==
    \/ RGI_Convert
    \/ RGI_Finalize
    \/ Ath_Convert
    \/ Ath_Finalize
    \/ Ath_Report

SpecWeek == InitWeek /\ [][NextWeek]_vars

----------------------------------------------------------------------------
(* Library functions called on their own: no pipeline is running *)

progVars == <<prog, pc, error, start_date, end_date, current_date, archive, log,
              visited, glaciers, glacier_masks, mask_array, lastExtract, results,
              hourly_data, datasets, pending, timeseries, derived, summary, top10,
              report>>

Standalone ==
    /\ prog = "library"
    /\ pc = "Init"
    /\ error = ""
    /\ start_date = 0
    /\ end_date = 0
    /\ current_date = 0
    /\ archive = <<>>
    /\ log = {}
    /\ visited = <<>>
    /\ glaciers = <<>>
    /\ glacier_masks = "None"
    /\ mask_array = NoMask
    /\ lastExtract = NoExtract
    /\ results = <<>>
    /\ hourly_data = <<>>
    /\ datasets = <<>>
    /\ pending = {}
    /\ timeseries = <<>>
    /\ derived = {}
    /\ summary = <<>>
    /\ top10 = NoReturn
    /\ report = NoReturn

----------------------------------------------------------------------------
(* utils/statistics.py: calculate_correlation, compute_lag_analysis *)

Sq(a) == a * a
Sign(a) == IF a > 0 THEN 1 ELSE IF a < 0 THEN -1 ELSE 0

\* A float result: NaN, or the exact value sign * sqrt(num / den) in lowest terms
NaNFloat == [nan |-> TRUE]
Root(sgn, num, den) ==
    [nan |-> FALSE, sign |-> sgn, num |-> num \div GCD(num, den), den |-> den \div GCD(num, den)]

Total(xs) == SumOver(DOMAIN xs, xs)
Dot(xs, ys) == SumOver(DOMAIN xs, [i \in DOMAIN xs |-> xs[i] * ys[i]])

\* Variant: the covariance is scaled by the variance of the first argument
\* alone (the slope of the regression of y on x).
PearsonROverXVariance(xs, ys) ==
    LET n == Len(xs)
        cov == n * Dot(xs, ys) - Total(xs) * Total(ys)
        vx == n * Dot(xs, xs) - Sq(Total(xs))
        vy == n * Dot(ys, ys) - Sq(Total(ys))
    IN  IF vx = 0 \/ vy = 0 THEN NaNFloat ELSE Root(Sign(cov), Sq(cov), vx * vx)

\* scipy.stats.pearsonr(x, y)[0]: covariance over the product of the
\* standard deviations, NaN when an input is constant
PearsonR(xs, ys) ==
    LET n == Len(xs)
        cov == n * Dot(xs, ys) - Total(xs) * Total(ys)
        vx == n * Dot(xs, xs) - Sq(Total(xs))
        vy == n * Dot(ys, ys) - Sq(Total(ys))
    IN  IF vx = 0 \/ vy = 0 THEN NaNFloat ELSE Root(Sign(cov), Sq(cov), vx * vy)

\* Twice the average rank of every value (ties share the average rank)
Rank2(xs) ==
    [i \in DOMAIN xs |->
        2 * Cardinality({j \in DOMAIN xs : xs[j] < xs[i]})
        + Cardinality({j \in DOMAIN xs : xs[j] = xs[i]}) + 1]

\* scipy.stats.spearmanr(x, y)[0]: Pearson's coefficient of the ranks
SpearmanR(xs, ys) == PearsonR(Rank2(xs), Rank2(ys))

\* scipy.stats.kendalltau(x, y)[0] (tau-b): concordant minus discordant
\* pairs over the root of the pairs not tied in x times those not tied in y
KendallTau(xs, ys) ==
    LET P == {p \in (DOMAIN xs) \X (DOMAIN xs) : p[1] < p[2]}
        s(p) == Sign(xs[p[1]] - xs[p[2]]) * Sign(ys[p[1]] - ys[p[2]])
        con == Cardinality({p \in P : s(p) > 0})
        dis == Cardinality({p \in P : s(p) < 0})
        ux == Cardinality({p \in P : xs[p[1]] # xs[p[2]]})
        uy == Cardinality({p \in P : ys[p[1]] # ys[p[2]]})
    IN  IF ux = 0 \/ uy = 0 THEN NaNFloat
        ELSE Root(Sign(con - dis), Sq(con - dis), ux * uy)

\* The p-value of a test is determined by the test, its statistic and the
\* sample size; it is NaN when the statistic is.
PValue(method, corr, n) ==
    IF corr.nan THEN NaNFloat ELSE [nan |-> FALSE, test |-> method, stat |-> corr, n |-> n]

\* tanh(arctanh(corr) -/+ 1.96 / sqrt(n - 3)): the two ends of the interval
FisherInterval(corr, n) ==
    IF corr.nan THEN <<NaNFloat, NaNFloat>>
    ELSE <<[nan |-> FALSE, end |-> "lower", of |-> corr, n |-> n],
           [nan |-> FALSE, end |-> "upper", of |-> corr, n |-> n]>>

\* x[mask]: the entries of xs at the positions of S, in order
RECURSIVE Take(_, _)
Take(xs, S) ==
    IF S = {} THEN <<>>
    ELSE LET i == CHOOSE i \in S : \A j \in S : i <= j
         IN  <<xs[i]>> \o Take(xs, S \ {i})

\* mask = ~(np.isnan(x) | np.isnan(y))
PairMask(x, y) == {i \in DOMAIN x : x[i] # NaN /\ y[i] # NaN}

\* Variant: two paired points are taken as enough.
InsufficientSampleBelowTwo(n) == n < MinPaired - 1

\* if len(x_clean) < 3
InsufficientSample(n) == n < MinPaired

SupportedMethods == {"pearson", "spearman", "kendall"}

calculate_correlation(x, y, method) ==
    LET x_clean == Take(x, PairMask(x, y))
        y_clean == Take(y, PairMask(x, y))
        n == Len(x_clean)
        corr == CASE method = "pearson" -> PearsonR(x_clean, y_clean)
                  [] method = "spearman" -> SpearmanR(x_clean, y_clean)
                  [] OTHER -> KendallTau(x_clean, y_clean)
    IN  IF InsufficientSample(n)
        THEN Returned([correlation |-> NaNFloat, p_value |-> NaNFloat,
                       confidence_interval |-> <<NaNFloat, NaNFloat>>])
        ELSE IF method \notin SupportedMethods
        THEN Raised("ValueError")
        ELSE Returned([correlation |-> corr,
                       p_value |-> PValue(method, corr, n),
                       confidence_interval |->
                           IF method = "pearson" /\ n > 3 THEN FisherInterval(corr, n)
                           ELSE <<NaNFloat, NaNFloat>>,
                       n_observations |-> n])

\* x[:-lag] and y[lag:] (the whole series at lag 0)
XLagged(x, lag) ==
    IF lag = 0 THEN x ELSE IF lag >= Len(x) THEN <<>> ELSE SubSeq(x, 1, Len(x) - lag)
YCurrent(y, lag) ==
    IF lag = 0 THEN y ELSE IF lag >= Len(y) THEN <<>> ELSE SubSeq(y, lag + 1, Len(y))

\* The body of the loop for one lag: the rows it appends, or the exception
\* it raises.  With method 'correlation' the result of calculate_correlation
\* (default method) is read key by key; any other method appends nothing
\* (the 'regression' branch is not among the calls made here).
LagStep(x, y, lag, method) ==
    LET result == calculate_correlation(XLagged(x, lag), YCurrent(y, lag), "pearson").value
    IN  IF method # "correlation" THEN [raised |-> "", rows |-> <<>>]
        ELSE IF "n_observations" \notin DOMAIN result
        THEN [raised |-> "KeyError", rows |-> <<>>]
        ELSE [raised |-> "",
              rows |-> <<[lag |-> lag,
                          correlation |-> result.correlation,
                          p_value |-> result.p_value,
                          n_obs |-> result.n_observations]>>]

\* for lag in range(lag, max_lag + 1)
RECURSIVE LagLoop(_, _, _, _, _)
LagLoop(x, y, lag, max_lag, method) ==
    IF lag > max_lag THEN [raised |-> "", rows |-> <<>>]
    ELSE LET step == LagStep(x, y, lag, method)
             rest == LagLoop(x, y, lag + 1, max_lag, method)
         IN  IF step.raised # "" THEN step
             ELSE IF rest.raised # "" THEN rest
             ELSE [raised |-> "", rows |-> step.rows \o rest.rows]

compute_lag_analysis(x, y, max_lag, method) ==
    LET out == LagLoop(x, y, 0, max_lag, method)
    IN  IF out.raised # "" THEN Raised(out.raised) ELSE Returned(out.rows)

\* Series of length n over the values of S with at most k missing entries
SeriesOf(S, n, k) ==
    {xs \in [1..n -> S \cup {NaN}] : Cardinality({i \in 1..n : xs[i] = NaN}) <= k}

\* Those of them whose values never decrease along the series
Rising(S, n, k) ==
    {ys \in SeriesOf(S, n, k) :
        \A i, j \in 1..n : (i < j /\ ys[i] # NaN /\ ys[j] # NaN) => ys[i] <= ys[j]}

SampleVals == {1, 2}
CorrMethods == SupportedMethods \cup {"theil"}
SweepMethods == SupportedMethods \cup {"correlation"}

\* The calls made: x is any series with at most one missing entry, y a
\* rising series (with at most one missing entry for calculate_correlation,
\* with none for compute_lag_analysis).
CorrCalls ==
    UNION {{[fn |-> "calculate_correlation", x |-> x, y |-> y, method |-> m] :
                x \in SeriesOf(SampleVals, n, 1), y \in Rising(SampleVals, n, 1),
                m \in CorrMethods} : n \in 0..MaxLen}

SweepCalls ==
    UNION {{[fn |-> "compute_lag_analysis", x |-> x, y |-> y, max_lag |-> k, method |-> m] :
                x \in SeriesOf(SampleVals, n, 1), y \in Rising(SampleVals, n, 0),
                k \in 0..MaxLag, m \in SweepMethods} : n \in 0..MaxLen}

----------------------------------------------------------------------------
(* RAQDPSGlacierAnalysis.correlate_deposition_albedo *)

\* A float cell of a DataFrame
Num(v) == [nan |-> FALSE, val |-> v]
Cell(v) == IF v = NaN THEN NaNFloat ELSE Num(v)

\* Series.diff(): the change from the previous row
Diff(a) ==
    [r \in DOMAIN a |->
        IF r = 1 \/ a[r].nan \/ a[r - 1].nan THEN NaNFloat
        ELSE Num(a[r].val - a[r - 1].val)]

\* Series.shift(k): the value k rows earlier
Shift(a, k) == [r \in DOMAIN a |-> IF r - k >= 1 THEN a[r - k] ELSE NaNFloat]

\* The values of the rows of S, in row order
Values(a, S) == Take([r \in DOMAIN a |-> a[r].val], S)
NotNa(a) == {r \in DOMAIN a : ~a[r].nan}

\* Series.corr(other): Pearson over the rows where both hold a value
SeriesCorr(a, b) == PearsonR(Values(a, NotNa(a) \cap NotNa(b)), Values(b, NotNa(a) \cap NotNa(b)))

\* pd.merge(deposition_df.resample('D').mean(), albedo_df, left_index=True,
\* right_index=True, how='inner') and the three derived columns: one row per
\* day that has an albedo row, in day order.  The deposition has a row for
\* every day 1..Len(bc) and albedo maps the days that have a row to a value.
Merged(bc, pm, albedo, lag_days) ==
    LET days == Take([d \in DOMAIN bc |-> d], DOMAIN albedo)
        alb == [r \in DOMAIN days |-> Num(albedo[days[r]])]
        bcs == [r \in DOMAIN days |-> Cell(bc[days[r]])]
        pms == [r \in DOMAIN days |-> Cell(pm[days[r]])]
    IN  [r \in DOMAIN days |->
            [day |-> days[r],
             BC_cumul |-> bcs[r],
             PM25_cumul |-> pms[r],
             albedo |-> alb[r],
             albedo_change |-> Diff(alb)[r],
             BC_cumul_lag |-> Shift(bcs, lag_days)[r],
             PM25_cumul_lag |-> Shift(pms, lag_days)[r]]]

MergedColumn(m, c) == [r \in DOMAIN m |-> m[r][c]]
MergedColumns ==
    {"BC_cumul", "PM25_cumul", "albedo", "albedo_change", "BC_cumul_lag", "PM25_cumul_lag"}

\* The correlations dict.  stats.pearsonr is given the two columns with
\* their own missing rows dropped: it raises ValueError when the two
\* lengths differ or are below 2.
correlate_deposition_albedo(bc, pm, albedo, lag_days) ==
    LET merged == Merged(bc, pm, albedo, lag_days)
        change == MergedColumn(merged, "albedo_change")
        bclag == MergedColumn(merged, "BC_cumul_lag")
        pmlag == MergedColumn(merged, "PM25_cumul_lag")
        a == Values(change, NotNa(change))
        b == Values(bclag, NotNa(bclag))
    IN  IF Len(a) # Len(b) \/ Len(a) < 2 THEN Raised("ValueError")
        ELSE Returned(
               [merged |-> merged,
                correlations |->
                  [BC_correlation |-> SeriesCorr(change, bclag),
                   PM25_correlation |-> SeriesCorr(change, pmlag),
                   BC_pvalue |-> PValue("pearson", PearsonR(a, b), Len(a)),
                   n_observations |->
                       Cardinality({r \in DOMAIN merged :
                                       \A c \in MergedColumns : ~merged[r][c].nan})]])

\* Reverse of a series
Reversed(xs) == [i \in DOMAIN xs |-> xs[Len(xs) + 1 - i]]

\* The albedo rows of the days 1..n: any set of days, values rising
AlbedoRows(n) ==
    UNION {{f \in [D -> SampleVals] : \A i, j \in D : i < j => f[i] <= f[j]} :
              D \in SUBSET (1..n)}

\* The calls made: a daily deposition over MaxLen days with at most one
\* missing value (PM25_cumul is BC_cumul in reverse order)
CoupleCalls ==
    {[fn |-> "correlate_deposition_albedo", bc |-> bc, pm |-> Reversed(bc),
      albedo |-> alb, lag_days |-> k] :
        bc \in SeriesOf(SampleVals, MaxLen, 1), alb \in AlbedoRows(MaxLen), k \in 0..MaxLag}

Call_correlate_deposition_albedo ==
    /\ call.fn = "correlate_deposition_albedo" /\ ~ret.done
    /\ ret' = correlate_deposition_albedo(call.bc, call.pm, call.albedo, call.lag_days)
    /\ UNCHANGED <<call, progVars>>

Call_calculate_correlation ==
    /\ call.fn = "calculate_correlation" /\ ~ret.done
    /\ ret' = calculate_correlation(call.x, call.y, call.method)
    /\ UNCHANGED <<call, progVars>>

Call_compute_lag_analysis ==
    /\ call.fn = "compute_lag_analysis" /\ ~ret.done
    /\ ret' = compute_lag_analysis(call.x, call.y, call.max_lag, call.method)
    /\ UNCHANGED <<call, progVars>>

InitStats ==
    /\ Standalone
    /\ call \in CorrCalls \cup SweepCalls \cup CoupleCalls
    /\ ret = NoReturn

NextStats ==
    \/ Call_calculate_correlation
    \/ Call_compute_lag_analysis
    \/ Call_correlate_deposition_albedo

SpecStats == InitStats /\ [][NextStats]_vars

----------------------------------------------------------------------------
(* utils/data_loaders.py: extract_glacier_values *)

\* The grid has n rows and n columns of unit cells: column c spans
\* [c - 1, c] in lon and row r spans [r - 1, r] in lat (row 1 is the
\* northernmost).  A glacier geometry is a box of whole cells: rows
\* box.r0..box.r1, columns box.c0..box.c1.
BoxCells(box) == (box.r0..box.r1) \X (box.c0..box.c1)

\* glacier_geometry.bounds
West(box) == box.c0 - 1
East(box) == box.c1
North(box) == box.r0 - 1
South(box) == box.r1

\* rasterio.transform.from_bounds(west, south, east, north, width, height)
\* applied to the centre of pixel (r, c) of the array: its lon and lat,
\* both times 2 * n to stay in whole numbers
PixelLon2n(box, n, c) == 2 * n * West(box) + (2 * c - 1) * (East(box) - West(box))
PixelLat2n(box, n, r) == 2 * n * North(box) + (2 * r - 1) * (South(box) - North(box))

\* geometry_mask(..., invert=True, out_shape=values.shape): the pixels of
\* the array whose centre, placed by that transform, lies in the geometry
GeometryMask(box, n) ==
    {p \in (1..n) \X (1..n) :
        /\ 2 * n * West(box) < PixelLon2n(box, n, p[2])
        /\ PixelLon2n(box, n, p[2]) < 2 * n * East(box)
        /\ 2 * n * North(box) < PixelLat2n(box, n, p[1])
        /\ PixelLat2n(box, n, p[1]) < 2 * n * South(box)}

AggregationMethods == {"mean", "sum", "max", "min"}

\* values: an n by n array given as a function of the pixel
extract_glacier_values(values, n, box, method) ==
    LET kept == GeometryMask(box, n)
        total == SumOver(kept, values)
    IN  CASE method = "mean" ->
               Returned(IF kept = {} THEN NaNFloat ELSE Frac(total, Cardinality(kept)))
          [] method = "sum" -> Returned(Frac(total, 1))
          [] method = "max" ->
               Returned(Frac(values[CHOOSE p \in kept : \A q \in kept : values[q] <= values[p]], 1))
          [] method = "min" ->
               Returned(Frac(values[CHOOSE p \in kept : \A q \in kept : values[p] <= values[q]], 1))
          [] OTHER -> Raised("ValueError")

\* The field that is 2 on the cells of the box and 1 elsewhere
BlockField(n, box) == [p \in (1..n) \X (1..n) |-> IF p \in BoxCells(box) THEN 2 ELSE 1]

\* The boxes of an n by n grid: a square block on the diagonal, a band of
\* whole rows or a band of whole columns
Boxes(n) ==
    {[r0 |-> a, r1 |-> b, c0 |-> a, c1 |-> b] : a \in 1..n, b \in 1..n}
    \cup {[r0 |-> a, r1 |-> b, c0 |-> 1, c1 |-> n] : a \in 1..n, b \in 1..n}
    \cup {[r0 |-> 1, r1 |-> n, c0 |-> a, c1 |-> b] : a \in 1..n, b \in 1..n}

RasterCalls ==
    UNION {{[fn |-> "extract_glacier_values", n |-> n, box |-> box,
             values |-> BlockField(n, box), method |-> m] :
                box \in {b \in Boxes(n) : b.r0 <= b.r1 /\ b.c0 <= b.c1},
                m \in AggregationMethods \cup {"median"}} : n \in 1..MaxSide}

Call_extract_glacier_values ==
    /\ call.fn = "extract_glacier_values" /\ ~ret.done
    /\ ret' = extract_glacier_values(call.values, call.n, call.box, call.method)
    /\ UNCHANGED <<call, progVars>>

InitRaster ==
    /\ Standalone
    /\ call \in RasterCalls
    /\ ret = NoReturn

NextRaster == Call_extract_glacier_values

SpecRaster == InitRaster /\ [][NextRaster]_vars

----------------------------------------------------------------------------
(* One RGI_RAQDPS_Analysis object: filter_glaciers_by_criteria and          *)
(* extract_deposition_timeseries called in any order                        *)

\* min_area of filter_glaciers_by_criteria
MinAreas == {1, 3, 5}

\* self.glaciers[self.glaciers['Area'] >= min_area] (max_elevation is None)
FilterByArea(reg, min_area) ==
    LET Keep(g) == g.Area >= min_area IN SelectSeq(reg, Keep)

\* filter_glaciers_by_criteria, called before an extraction starts
RGI_Filter ==
    /\ prog = "rgi" /\ pc = "Init"
    /\ \E min_area \in MinAreas : glaciers' = FilterByArea(glaciers, min_area)
    /\ UNCHANGED <<report, top10, call, ret, prog, pc, error, start_date, end_date,
                   current_date, archive, log, visited, glacier_masks,
                   mask_array, lastExtract, results, hourly_data, datasets,
                   pending, timeseries, derived, summary>>

\* extract_deposition_timeseries has returned its dict and the caller goes
\* on to another call on the same object.
RGI_CallAgain ==
    /\ prog = "rgi" /\ pc = "Finalizing"
    /\ pc' = "Init"
    /\ archive' = <<>>
    /\ log' = {}
    /\ visited' = <<>>
    /\ results' = <<>>
    /\ timeseries' = <<>>
    /\ UNCHANGED <<report, top10, call, ret, prog, error, start_date, end_date,
                   current_date, glaciers, glacier_masks, mask_array,
                   lastExtract, hourly_data, datasets, pending, derived, summary>>

\* A new object whose window is the single hour 0
InitObject ==
    /\ prog = "rgi"
    /\ pc = "Init"
    /\ error = ""
    /\ start_date = 0
    /\ end_date = 0
    /\ current_date = 0
    /\ archive = <<>>
    /\ log = {}
    /\ visited = <<>>
    /\ glaciers \in Registries
    /\ glacier_masks = "None"
    /\ mask_array = NoMask
    /\ lastExtract = NoExtract
    /\ results = <<>>
    /\ hourly_data = <<>>
    /\ datasets = <<>>
    /\ pending = {}
    /\ timeseries = <<>>
    /\ derived = {}
    /\ summary = <<>>
    /\ top10 = NoReturn
    /\ report = NoReturn
    /\ call = NoCall
    /\ ret = NoReturn

NextObject ==
    \/ RGI_Filter
    \/ RGI_Start
    \/ RGI_Stream
    \/ RGI_Convert
    \/ RGI_CallAgain

SpecObject == InitObject /\ [][NextObject]_vars

----------------------------------------------------------------------------
(* utils/data_loaders.py: load_raqdps_data *)

\* Instants are counted in half hours here: timedelta(hours=1)
Hour == 2

\* current.strftime('%Y%m%d%H'): the hour the instant falls in, which names
\* the file
HourOf(t) == t \div Hour

\* The coordinate arrays of a file: lon rises; lat rises or falls
LonAxis == <<0, 1, 2, 3>>
LatRising == <<0, 1, 2, 3>>
LatFalling == <<3, 2, 1, 0>>

\* The file of hour h: its slice is stamped with the start of the hour
DiskFile(h, lat, names) ==
    [exists |-> TRUE, time |-> h * Hour, lon |-> LonAxis, lat |-> lat, vars |-> names]

\* The directory: every hour has no file or the nominal file, except that
\* at most one hour holds a file without PM10_dep or with a falling lat.
Disks ==
    {d \in [Hours -> UNION {{Missing, DiskFile(h, LatRising, AllVars),
                             DiskFile(h, LatRising, {"BC_dep", "PM2.5_dep"}),
                             DiskFile(h, LatFalling, AllVars)} : h \in Hours}] :
        /\ \A h \in Hours : d[h].exists => d[h].time = h * Hour
        /\ Cardinality({h \in Hours : d[h].exists /\ d[h] # DiskFile(h, LatRising, AllVars)}) <= 1}

Rises(axis) == \A i, j \in DOMAIN axis : i < j => axis[i] < axis[j]

\* Variant: the slice has no upper end.
SelSliceFromLower(axis, lo, hi) ==
    Take(axis, {i \in DOMAIN axis : lo <= axis[i]})

\* ds.sel(dim=slice(lo, hi)) on a monotonic coordinate: the labels from lo
\* to hi in index order, both ends included (on a falling coordinate those
\* from lo down to hi)
SelSlice(axis, lo, hi) ==
    Take(axis, {i \in DOMAIN axis :
                   IF Rises(axis) THEN lo <= axis[i] /\ axis[i] <= hi
                   ELSE hi <= axis[i] /\ axis[i] <= lo})

\* An optional argument left at None
NotGiven == [given |-> FALSE]

\* variables: None stands for the three default names
NamesOf(variables) ==
    IF variables.given THEN variables.names ELSE DefaultVariables

Elements(xs) == {xs[i] : i \in DOMAIN xs}

\* Lines 37-50 for one file that exists: ds[variables] raises KeyError for
\* a name the file does not hold.
LoadOne(file, variables, bbox) ==
    LET names == NamesOf(variables)
        kept == IF names # <<>> THEN Elements(names) ELSE file.vars
    IN  IF names # <<>> /\ ~(Elements(names) \subseteq file.vars)
        THEN [raised |-> "KeyError"]
        ELSE [raised |-> "",
              ds |-> [time |-> file.time,
                      vars |-> kept,
                      lon |-> IF bbox.given THEN SelSlice(file.lon, bbox.lon_min, bbox.lon_max)
                              ELSE file.lon,
                      lat |-> IF bbox.given THEN SelSlice(file.lat, bbox.lat_min, bbox.lat_max)
                              ELSE file.lat]]

\* while current <= end_date: the datasets appended from current on, or
\* the exception that ends the loop
RECURSIVE LoadLoop(_, _, _, _, _)
LoadLoop(disk, current, end, variables, bbox) ==
    IF current > end THEN [raised |-> "", datasets |-> <<>>]
    ELSE LET h == HourOf(current)
             found == h \in DOMAIN disk /\ disk[h].exists
             one == LoadOne(disk[h], variables, bbox)
             rest == LoadLoop(disk, current + Hour, end, variables, bbox)
         IN  IF ~found THEN rest
             ELSE IF one.raised # "" THEN [raised |-> one.raised, datasets |-> <<>>]
             ELSE IF rest.raised # "" THEN rest
             ELSE [raised |-> "", datasets |-> <<one.ds>> \o rest.datasets]

\* xr.concat(datasets, dim='time'): the slices in list order on the union
\* of their coordinates (every dataset holds the same selected variables)
Concat(dss) ==
    Returned([time |-> [i \in DOMAIN dss |-> dss[i].time],
              vars |-> dss[1].vars,
              lon |-> UNION {Elements(dss[i].lon) : i \in DOMAIN dss},
              lat |-> UNION {Elements(dss[i].lat) : i \in DOMAIN dss}])

load_raqdps_data(disk, start, end, variables, bbox) ==
    LET out == LoadLoop(disk, start, end, variables, bbox)
    IN  IF out.raised # "" THEN Raised(out.raised)
        ELSE IF out.datasets # <<>> THEN Concat(out.datasets)
        ELSE Raised("ValueError")

\* The instants of the window: every half hour of the hours of the disk
Instants == 0..(Hour * MaxHour + Hour - 1)

\* variables: None or the two names of the test
VariableArgs ==
    {NotGiven, [given |-> TRUE, names |-> CouplingVariables]}

\* bbox: None or a box inside the grid
BboxArgs ==
    {NotGiven, [given |-> TRUE, lon_min |-> 1, lat_min |-> 1, lon_max |-> 2, lat_max |-> 3]}

LoadCalls ==
    {[fn |-> "load_raqdps_data", disk |-> d, start_date |-> a, end_date |-> b,
      variables |-> v, bbox |-> x] :
        d \in Disks, a \in Instants, b \in Instants, v \in VariableArgs, x \in BboxArgs}

Call_load_raqdps_data ==
    /\ call.fn = "load_raqdps_data" /\ ~ret.done
    /\ ret' = load_raqdps_data(call.disk, call.start_date, call.end_date,
                               call.variables, call.bbox)
    /\ UNCHANGED <<call, progVars>>

InitLoader ==
    /\ Standalone
    /\ call \in LoadCalls
    /\ ret = NoReturn

NextLoader == Call_load_raqdps_data

SpecLoader == InitLoader /\ [][NextLoader]_vars

----------------------------------------------------------------------------
(* Properties *)

MissingHours == {t \in DOMAIN archive : ~archive[t].exists}
PresentHours == {t \in DOMAIN archive : archive[t].exists}
Terminal == pc \in {"Done", "Aborted"}
RowTimes(rows) == {rows[i].time : i \in DOMAIN rows}
Outlines == [k \in DOMAIN glaciers |-> glaciers[k].geometry]

\* C1: the streaming loops never abort on a missing file: every missing
\* slice is logged and skipped, the loop goes on to the next hour, and a run
\* over a non-empty window completes even when every file of it is missing
\* (an abort is never due to missing files alone).
C1_MissingFilesNeverAbort ==
    /\ MissingHours \subseteq log
    /\ \A t \in MissingHours : pc # "Aborted" => current_date > t
    /\ (pc = "Aborted" /\ start_date <= end_date) => PresentHours # {}

\* C2: for a window with start <= end, a batch run (rgi pipeline, athabasca
\* analyze_period) visits start, start+1, ..., end once each in increasing
\* order, computes derived columns and summary records only after the last
\* hour, and ends in Done, never in an abort.
C2_BatchRunReachesDone ==
    (prog \in {"rgi", "athabasca"} /\ start_date <= end_date) =>
        /\ \A i \in DOMAIN visited : visited[i] = start_date + i - 1
        /\ Len(visited) <= end_date - start_date + 1
        /\ pc \in {"Finalizing", "Done"} => Len(visited) = end_date - start_date + 1
        /\ (derived # {} \/ summary # <<>>) => pc = "Done"
        /\ pc # "Aborted"

\* The rows a slice contributes to a series carry its time.
Contributes(ds) ==
    /\ ds.exists
    /\ prog = "rgi" => ds.vars \cap {DefaultVariables[k] : k \in DOMAIN DefaultVariables} # {}

\* The derived columns of a series are those of one pass over it.
OnePass(df) ==
    IF prog = "rgi"
    THEN /\ Column(df, BC7) = RollingSum(Times(df), Column(df, <<"BC_dep", "sum">>), Window7D)
         /\ Column(df, PM7) = RollingSum(Times(df), Column(df, <<"PM2.5_dep", "sum">>), Window7D)
    ELSE \A k \in DOMAIN DefaultVariables :
            LET var == DefaultVariables[k]
                xs == Column(df, <<var, "sum">>)
            IN  <<var, "sum">> \in Columns(df) =>
                  /\ Column(df, <<var, "cumul_24h">>) = RollingSum(Times(df), xs, Window24H)
                  /\ Column(df, <<var, "cumul_7d">>) = RollingSum(Times(df), xs, Window7D)
                  /\ Column(df, <<var, "cumul_total">>) = CumSum(xs)

\* C3: no rolling or cumulative column exists before the loop has passed the
\* last hour of the window; when the columns exist, the series holds the
\* rows of every slice of the window that was present, in chronological
\* order, and the columns are those of one pass over that series.
C3_DerivedOnlyAfterFullSortedSeries ==
    /\ pc \in {"Init", "Streaming", "Finalizing"} => derived = {}
    /\ \A id \in derived :
        /\ current_date > end_date
        /\ MonotonicIncreasing(Times(timeseries[id]))
        /\ RowTimes(timeseries[id]) =
              {t \in PresentHours : t \in start_date..end_date /\ Contributes(archive[t])}
        /\ OnePass(timeseries[id])

C3_Witness ==
    /\ pc = "Done"
    /\ \E id \in derived :
        /\ Cardinality(RowTimes(timeseries[id])) >= 2
        /\ <<"BC_dep", "sum">> \in Columns(timeseries[id])

\* The batches sorted by time (times are distinct)
RECURSIVE SortByTime(_)
SortByTime(S) ==
    IF S = {} THEN <<>>
    ELSE LET b == CHOOSE b \in S : \A o \in S : b.time <= o.time
         IN  <<b>> \o SortByTime(S \ {b})

C5_TimestampsStrictlyIncreasing ==
    prog = "rgi" =>
        \A id \in DOMAIN results : \A i, j \in DOMAIN results[id] :
            i < j => results[id][i].time < results[id][j].time

\* C6: a missing slice is absent from every series: no row, no loaded
\* slice and no value carries the time of an hour whose file is missing.
C6_MissingSliceIsAbsent ==
    \A t \in MissingHours :
        /\ \A id \in DOMAIN results : t \notin RowTimes(results[id])
        /\ t \notin RowTimes(hourly_data)
        /\ t \notin RowTimes(datasets)
        /\ \A id \in DOMAIN timeseries : t \notin RowTimes(timeseries[id])

C6_Witness ==
    /\ pc = "Done"
    /\ \E t \in MissingHours : \E id \in DOMAIN timeseries :
        /\ \E a \in RowTimes(timeseries[id]) : a < t
        /\ \E b \in RowTimes(timeseries[id]) : b > t

\* C7: the mask assigns every grid cell to at most one glacier: the cell
\* sets (mask_array == i) of two different glaciers are disjoint.
C7_MaskCellsDisjoint ==
    /\ \A c \in mask_array.lon : Cardinality({p \in mask_array.cell : p[1] = c}) <= 1
    /\ \A i, j \in 0..(Len(glaciers) - 1) :
          i # j => MaskCells(mask_array, i) \cap MaskCells(mask_array, j) = {}

C7_Witness ==
    /\ glacier_masks = "Regions"
    /\ RegionsOverlap(Outlines, mask_array.lon)
    /\ \E i \in 0..(Len(glaciers) - 1) : MaskCells(mask_array, i) # {}

\* C8: a cell that lies in several polygons is assigned to the glacier with
\* the lexicographically smallest identifier, or (the other reading of the
\* sentence) to the one registered first.
Covering(c) == {k \in DOMAIN glaciers : c \in glaciers[k].geometry}
FirstRegistered(K) == CHOOSE k \in K : \A o \in K : k <= o
SmallestId(K) ==
    CHOOSE k \in K : \A o \in K : IdRank(glaciers[k].RGIId) <= IdRank(glaciers[o].RGIId)
C8_OverlapFirstWins ==
    glacier_masks = "Regions" =>
        \A c \in mask_array.lon :
            Cardinality(Covering(c)) >= 2 =>
                \/ <<c, SmallestId(Covering(c)) - 1>> \in mask_array.cell
                \/ <<c, FirstRegistered(Covering(c)) - 1>> \in mask_array.cell

\* C9: at every extraction the mask in use was built for the grid of the
\* slice being extracted (the mask is rebuilt when the coordinates change).
C9_MaskBuiltForSliceGrid ==
    lastExtract.mask_lon = lastExtract.lon

\* C10: a glacier with no assigned grid cell has 'missing' for the mean and
\* for the sum of every variable in every slice, and no total of zero in
\* the summary.
ZeroCoverage(id) == MaskCells(mask_array, IndexOf(glaciers, id) - 1) = {}
C10_EmptyCoverageReportsMissing ==
    (prog = "rgi" /\ glacier_masks = "Regions") =>
        /\ \A id \in DOMAIN results : ZeroCoverage(id) =>
              \A i \in DOMAIN results[id] : \A c \in DOMAIN results[id][i].col :
                  results[id][i].col[c] = NaN
        /\ \A k \in DOMAIN summary : ZeroCoverage(summary[k].RGIId) =>
              summary[k].BC_total # 0 /\ summary[k].PM25_total # 0

\* The variables the batch loops request
Requested == {DefaultVariables[k] : k \in DOMAIN DefaultVariables}
RowsAt(rows, t) == {i \in DOMAIN rows : rows[i].time = t}

\* C11: a requested variable absent from a slice is skipped for that slice
\* (no value of it for any glacier), the mean and sum of every requested
\* variable the slice has are produced, and no run ends in the KeyError of
\* reading an absent variable or column, in loading, extraction or summary.
C11_AbsentVariableNeverAborts ==
    /\ error # "KeyError"
    /\ (prog = "rgi" /\ glacier_masks = "Regions") =>
          \A t \in PresentHours : \A id \in DOMAIN results : \A var \in Requested :
              t < current_date =>
                  (var \in archive[t].vars <=>
                      \E i \in RowsAt(results[id], t) :
                          {<<var, "mean">>, <<var, "sum">>} \subseteq DOMAIN results[id][i].col)
    /\ prog = "athabasca" =>
          \A t \in PresentHours : \A var \in Requested :
              (var \in archive[t].vars <=>
                  \E i \in RowsAt(hourly_data, t) :
                      {<<var, "mean">>, <<var, "sum">>} \subseteq DOMAIN hourly_data[i].col)

\* The rolling-sum columns of a pipeline: <<source column, rolling column, window>>
AthRolling ==
    {<<<<var, "sum">>, <<var, "cumul_24h">>, Window24H>> : var \in Requested}
    \cup {<<<<var, "sum">>, <<var, "cumul_7d">>, Window7D>> : var \in Requested}
RgiRolling ==
    {<<<<"BC_dep", "sum">>, BC7, Window7D>>, <<<<"PM2.5_dep", "sum">>, PM7, Window7D>>}
RollingCols == IF prog = "rgi" THEN RgiRolling ELSE AthRolling

\* The rows whose timestamp falls in the window of length W ending at row i
InWindow(df, i, W) ==
    {j \in DOMAIN df : df[i].time - W < df[j].time /\ df[j].time <= df[i].time}

\* The observations of column c in the window of length W ending at row i
WindowObs(df, c, i, W) == ValidIdx(Column(df, c), InWindow(df, i, W))

\* At every row of a series, every rolling column whose window holds an
\* observation is the sum of the observations of the window.
RollingIsWindowSum(df, cols) ==
    \A r \in cols : r[1] \in Columns(df) =>
        \A i \in DOMAIN df :
            WindowObs(df, r[1], i, r[3]) # {} =>
                Col(df[i], r[2]) = SumOver(WindowObs(df, r[1], i, r[3]), Column(df, r[1]))

\* C13: at each row of a glacier series (athabasca and rgi pipelines) the
\* rolling sum is the sum of the observations whose timestamps fall in the
\* trailing wall-clock window (24 hours, 7 days) ending at that row,
\* whatever the number of rows in it.
C13_RollingSumOverWallClockWindow ==
    \A id \in derived : RollingIsWindowSum(timeseries[id], RollingCols)

\* The series has one row per hour of the window, an hour apart, each with
\* the same value in the sum column of every tracked variable.
GapFreeConstant(df) ==
    /\ Len(df) = end_date - start_date + 1
    /\ \A k \in DOMAIN df :
        /\ df[k].time = start_date + k - 1
        /\ \A var \in Requested : Col(df[k], <<var, "sum">>) = Col(df[1], <<var, "sum">>)

\* C14: on a gap-free hourly series of constant value v the 24-hour rolling
\* sum of analyze_period is k*v at the k-th observation for k < 24 and 24*v
\* at the 24th observation and at every later one.
C14_Rolling24hOfConstantSeries ==
    \A id \in derived :
        (prog = "athabasca" /\ GapFreeConstant(timeseries[id])) =>
            \A var \in Requested : \A k \in DOMAIN timeseries[id] :
                Col(timeseries[id][k], <<var, "cumul_24h">>) =
                    (IF k < 24 THEN k ELSE 24) * Col(timeseries[id][1], <<var, "sum">>)

C14_Witness ==
    /\ prog = "athabasca" /\ pc = "Done"
    /\ \E id \in derived :
        /\ GapFreeConstant(timeseries[id])
        /\ Len(timeseries[id]) >= 25
        /\ Col(timeseries[id][1], <<"BC_dep", "sum">>) >= 1

\* The observations of column c in the rows up to the timestamp of row i
ObsThrough(df, c, i) ==
    ValidIdx(Column(df, c), {j \in DOMAIN df : df[j].time <= df[i].time})

\* The cumulative-total column of one variable is the running total of its
\* sum column at every row from the first observation on, and never decreases.
RunningTotal(df, var) ==
    LET xs == Column(df, <<var, "sum">>)
        tot == Column(df, <<var, "cumul_total">>)
    IN  /\ \A i \in DOMAIN df :
              ObsThrough(df, <<var, "sum">>, i) # {} =>
                  tot[i] = SumOver(ObsThrough(df, <<var, "sum">>, i), xs)
        /\ \A i, j \in DOMAIN df :
              (i <= j /\ ObsThrough(df, <<var, "sum">>, i) # {}) => tot[i] <= tot[j]

\* C15: the cumulative-total column of a series of analyze_period is, at
\* every row, the running total of the (non-negative) observations from the
\* first one through that row, and is non-decreasing along the series.
C15_CumulativeTotalIsRunningTotal ==
    \A id \in derived :
        prog = "athabasca" =>
            \A var \in Requested :
                <<var, "sum">> \in Columns(timeseries[id]) => RunningTotal(timeseries[id], var)

\* C16: at a row whose rolling window holds no observation value, the
\* rolling sums (24h, 7-day) are 0 and the moving average of the same
\* column (calculate_trends) is missing.
C16_EmptyWindowSumIsZero ==
    \A id \in derived : \A r \in RollingCols :
        r[1] \in Columns(timeseries[id]) =>
            \A i \in DOMAIN timeseries[id] :
                WindowObs(timeseries[id], r[1], i, r[3]) = {} =>
                    /\ Col(timeseries[id][i], r[2]) = 0
                    /\ RollingMean(Times(timeseries[id]),
                                   Column(timeseries[id], r[1]), r[3])[i].missing

\* The positions at which both arguments of the call hold a value
PairedValid == {i \in DOMAIN call.x : call.x[i] # NaN /\ call.y[i] # NaN}

\* C17: calculate_correlation drops the positions where x or y is missing;
\* with fewer than 3 paired valid points left it returns (does not raise) a
\* result whose coefficient and p-value are NaN; otherwise the sample count
\* it reports is the number of paired valid positions.
C17_FewerThanThreePairsIsUndefined ==
    (call.fn = "calculate_correlation" /\ ret.done) =>
        /\ Cardinality(PairedValid) < 3 =>
              /\ ret.raised = ""
              /\ ret.value.correlation = NaNFloat
              /\ ret.value.p_value = NaNFloat
        /\ (Cardinality(PairedValid) >= 3 /\ ret.raised = "") =>
              ret.value.n_observations = Cardinality(PairedValid)

C17_Witness ==
    /\ call.fn = "calculate_correlation" /\ ret.done
    /\ Len(call.x) = 4
    /\ Cardinality(PairedValid) = 2
    /\ \E i, j \in DOMAIN call.x : call.x[i] = NaN /\ call.y[j] = NaN
    /\ \E i, j \in PairedValid : call.x[i] # call.x[j] /\ call.y[i] # call.y[j]
    /\ ret.value.correlation = NaNFloat

\* The paired valid points of the series trimmed for lag k
TrimmedValid(k) ==
    {i \in 1..(Len(call.x) - k) : call.x[i] # NaN /\ call.y[i + k] # NaN}

\* C18: compute_lag_analysis (default method) returns, for every pair of
\* equal-length series and every max_lag, exactly max_lag + 1 results in
\* the order lag 0, 1, ..., max_lag, each with lag, coefficient, p-value
\* and sample count; a lag with fewer than 3 valid points is an undefined
\* (NaN) result, and the sweep raises nothing.
C18_SweepReturnsEveryLag ==
    (call.fn = "compute_lag_analysis" /\ call.method = "correlation" /\ ret.done) =>
        /\ ret.raised = ""
        /\ Len(ret.value) = call.max_lag + 1
        /\ \A k \in DOMAIN ret.value :
            /\ ret.value[k].lag = k - 1
            /\ {"correlation", "p_value", "n_obs"} \subseteq DOMAIN ret.value[k]
            /\ Cardinality(TrimmedValid(k - 1)) < 3 => ret.value[k].correlation = NaNFloat

\* C19: for each of Pearson, Spearman and Kendall, the sweep run with that
\* method has a lag-0 entry whose coefficient, p-value and sample count are
\* those of calculate_correlation with the same method on the same pair.
C19_LagZeroIsPlainCorrelation ==
    (call.fn = "compute_lag_analysis" /\ call.method \in SupportedMethods /\ ret.done) =>
        /\ ret.raised = ""
        /\ Len(ret.value) >= 1
        /\ ret.value[1].lag = 0
        /\ LET plain == calculate_correlation(call.x, call.y, call.method).value
           IN  /\ ret.value[1].correlation = plain.correlation
               /\ ret.value[1].p_value = plain.p_value
               /\ "n_observations" \in DOMAIN plain => ret.value[1].n_obs = plain.n_observations

\* At lag k the sweep pairs x[i] with y[i + k], for every i it can, and
\* with nothing else: the row of lag k counts and correlates those pairs.
SweepPairsLater(row) ==
    LET V == TrimmedValid(row.lag)
    IN  /\ row.n_obs = Cardinality(V)
        /\ row.correlation =
              PearsonR(Take(call.x, V), Take([i \in V |-> call.y[i + row.lag]], V))

\* The deposition paired with the albedo change of day t is that of day t - lag
PairsEarlierDay(row) ==
    row.BC_cumul_lag =
        IF row.day - call.lag_days \in DOMAIN call.bc
        THEN Cell(call.bc[row.day - call.lag_days]) ELSE NaNFloat

\* C20: at lag k of the sweep x[i] is paired with y[i + k] for every
\* 0 <= i < n - k and with nothing else (x precedes y), and
\* correlate_deposition_albedo pairs the deposition of day t - lag with the
\* albedo change of day t.
C20_LagPairsCauseBeforeEffect ==
    /\ (call.fn = "compute_lag_analysis" /\ call.method = "correlation"
            /\ ret.done /\ ret.raised = "") =>
          \A k \in DOMAIN ret.value : SweepPairsLater(ret.value[k])
    /\ (call.fn = "correlate_deposition_albedo" /\ ret.done /\ ret.raised = "") =>
          \A r \in DOMAIN ret.value.merged : PairsEarlierDay(ret.value.merged[r])

\* C12: extract_glacier_values aggregates exactly the grid cells inside the
\* glacier geometry: on a field that is 2 on the block the polygon covers
\* and 1 elsewhere, 'mean' returns 2 and 'sum' returns 2 times the number
\* of covered cells (2.0 and 18.0 for a 3x3 block of a 10x10 grid).
C12_AggregatesCellsInsideGeometry ==
    (call.fn = "extract_glacier_values" /\ ret.done) =>
        /\ call.method = "mean" => ret.value = Frac(2, 1)
        /\ call.method = "sum" => ret.value = Frac(2 * Cardinality(BoxCells(call.box)), 1)

\* The same call with its two series exchanged
Exchanged == calculate_correlation(call.y, call.x, call.method)

\* C21: with method Pearson, calculate_correlation(x, y) and
\* calculate_correlation(y, x) return the same coefficient, the same
\* p-value and the same sample count, also when values are missing and
\* when fewer than 3 paired points are left (then neither reports a count).
C21_PearsonIsSymmetric ==
    (call.fn = "calculate_correlation" /\ call.method = "pearson" /\ ret.done) =>
        /\ ret.raised = "" /\ Exchanged.raised = ""
        /\ ret.value.correlation = Exchanged.value.correlation
        /\ ret.value.p_value = Exchanged.value.p_value
        /\ ("n_observations" \in DOMAIN ret.value) = ("n_observations" \in DOMAIN Exchanged.value)
        /\ "n_observations" \in DOMAIN ret.value =>
              ret.value.n_observations = Exchanged.value.n_observations

C21_Witness ==
    /\ call.fn = "calculate_correlation" /\ call.method = "pearson" /\ ret.done
    /\ call.x # call.y
    /\ \E i \in DOMAIN call.x : call.x[i] = NaN
    /\ ~ret.value.correlation.nan
    /\ ret.value.correlation.num # ret.value.correlation.den

\* C22: an unsupported correlation method is rejected at entry:
\* calculate_correlation raises for every input when the method is not
\* one of pearson, spearman, kendall, also with fewer than 3 valid pairs,
\* and returns no result.
C22_UnsupportedMethodRaises ==
    (call.fn = "calculate_correlation" /\ call.method \notin SupportedMethods /\ ret.done) =>
        ret.raised = "ValueError"

\* C23: the ranked cross-glacier summary lists the glaciers by total
\* deposition descending, and glaciers of equal total by identifier
\* ascending, whatever the order of the registry.
C23_RankedByTotalThenIdentifier ==
    (top10.done /\ top10.raised = "") =>
        \A i, j \in DOMAIN top10.value : i < j =>
            \/ top10.value[i].BC_total > top10.value[j].BC_total
            \/ /\ top10.value[i].BC_total = top10.value[j].BC_total
               /\ IdRank(top10.value[i].RGIId) < IdRank(top10.value[j].RGIId)

\* C24: the summary table returned by batch_analysis_pipeline has exactly
\* one row per glacier of the registry, each identifier once, whatever
\* slices are missing and also for glaciers without grid coverage.
C24_OneSummaryRowPerGlacier ==
    (prog = "rgi" /\ pc = "Done") =>
        /\ Len(summary) = Len(glaciers)
        /\ {summary[k].RGIId : k \in DOMAIN summary} = RGIIds(glaciers)

\* The files of the directory stamped within the window of the call
FilesInWindow ==
    {h \in DOMAIN call.disk :
        /\ call.disk[h].exists
        /\ call.start_date <= call.disk[h].time
        /\ call.disk[h].time <= call.end_date}

\* C25: load_raqdps_data returns one time slice per hourly file that exists
\* with a timestamp in [start_date, end_date] (ends included), in
\* chronological order, holding the requested variables; it raises
\* ValueError when no file of the window exists.
C25_OneSlicePerFileOfWindow ==
    (call.fn = "load_raqdps_data" /\ ret.done) =>
        IF FilesInWindow = {}
        THEN ret.raised = "ValueError"
        ELSE /\ ret.raised = ""
             /\ Elements(ret.value.time) = {call.disk[h].time : h \in FilesInWindow}
             /\ Rises(ret.value.time)
             /\ Elements(NamesOf(call.variables)) \subseteq ret.value.vars

\* C26: given a bounding box (lon_min, lat_min, lon_max, lat_max), every
\* lon and lat coordinate of the dataset load_raqdps_data returns lies
\* inside the box, bounds included.
C26_CoordinatesInsideBbox ==
    (call.fn = "load_raqdps_data" /\ call.bbox.given /\ ret.done /\ ret.raised = "") =>
        /\ \A c \in ret.value.lon : call.bbox.lon_min <= c /\ c <= call.bbox.lon_max
        /\ \A c \in ret.value.lat : call.bbox.lat_min <= c /\ c <= call.bbox.lat_max

C26_Witness ==
    /\ call.fn = "load_raqdps_data" /\ call.bbox.given /\ ret.done /\ ret.raised = ""
    /\ Len(ret.value.time) >= 2
    /\ ret.value.lon = {1, 2}
    /\ ret.value.lat = {1, 2, 3}
    /\ \E h \in DOMAIN call.disk :
          call.disk[h].exists /\ \E c \in Elements(call.disk[h].lon) : c > call.bbox.lon_max

\* The rows of the merged frame where both the albedo change and the lagged
\* BC deposition are present
PairedRows(m) ==
    NotNa(MergedColumn(m, "albedo_change")) \cap NotNa(MergedColumn(m, "BC_cumul_lag"))

\* Pearson's coefficient over the rows of S
PairedPearson(m, S) ==
    PearsonR(Values(MergedColumn(m, "albedo_change"), S),
             Values(MergedColumn(m, "BC_cumul_lag"), S))

\* C27: correlate_deposition_albedo reports a BC coefficient, a BC p-value
\* and n_observations that are all computed over the rows where both the
\* albedo change and the lagged cumulative deposition are present, for
\* every lag_days >= 0.
C27_StatisticsOverSamePairedRows ==
    (call.fn = "correlate_deposition_albedo" /\ ret.done) =>
        /\ ret.raised = ""
        /\ LET m == ret.value.merged
               P == PairedRows(m)
           IN  /\ ret.value.correlations.BC_correlation = PairedPearson(m, P)
               /\ ret.value.correlations.BC_pvalue =
                      PValue("pearson", PairedPearson(m, P), Cardinality(P))
               /\ ret.value.correlations.n_observations = Cardinality(P)

\* The cells the mask built for registry reg on the grid lon gives to the
\* glacier id
OwnCells(reg, lon, id) ==
    MaskCells([lon |-> lon,
               cell |-> Rasterize([k \in DOMAIN reg |-> reg[k].geometry], lon, 1, {})],
              IndexOf(reg, id) - 1)

\* C28: after any sequence of filter_glaciers_by_criteria and
\* extract_deposition_timeseries calls on one object, whenever the label
\* array is read label i denotes the i-th glacier of the registry of that
\* moment: the cells read for a glacier are that glacier's own cells.
C28_LabelsFollowCurrentRegistry ==
    \A id \in DOMAIN lastExtract.cells :
        lastExtract.cells[id] =
            OwnCells(lastExtract.registry, lastExtract.mask_lon, id)

\* The hours from the first to the last row of a series
SpanOf(df) == Times(df)[Len(df)] - Times(df)[1]

\* A peak 7-day window and a total that fit together for a series df
PeakWithinTotal(peak, total, df) ==
    /\ peak <= total
    /\ SpanOf(df) < Window7D => peak = total

\* C29: in every summary record (deposition sums are never negative) the
\* peak 7-day window is at most the total, and equals it when the whole
\* series spans less than 7 days: BC_max_7d / BC_total and PM25_max_7d /
\* PM25_total of the batch summary, max_7j / total_kg of the report.
C29_PeakWeekAtMostTotal ==
    /\ \A k \in DOMAIN summary :
          LET df == timeseries[summary[k].RGIId]
          IN  /\ PeakWithinTotal(summary[k].BC_max_7d, summary[k].BC_total, df)
              /\ PeakWithinTotal(summary[k].PM25_max_7d, summary[k].PM25_total, df)
    /\ (report.done /\ report.raised = "") =>
          \A c \in DOMAIN report.value.stats : c[2] = "max_7j" =>
              PeakWithinTotal(report.value.stats[c],
                              report.value.stats[<<c[1], "total_kg">>],
                              timeseries["athabasca"])

C29_Witness ==
    /\ report.done /\ report.raised = ""
    /\ SpanOf(timeseries["athabasca"]) >= Window7D
    /\ <<"BC_dep", "max_7j">> \in DOMAIN report.value.stats
    /\ report.value.stats[<<"BC_dep", "max_7j">>] = 2
    /\ report.value.stats[<<"BC_dep", "total_kg">>] = 3

\* The hours from the first to the last observation that have no row
AbsentHours(df) ==
    {t \in Times(df)[1]..Times(df)[Len(df)] : \A i \in DOMAIN df : df[i].time # t}

\* C30: the missing-data percentage of create_summary_report is defined for
\* every non-empty series, a single observation included, lies between 0
\* and 100, and is 0 when every hour from the first to the last
\* observation is present.
C30_MissingPercentageDefined ==
    report.done =>
        /\ report.raised = ""
        /\ 0 <= report.value.missing_pct.num
        /\ report.value.missing_pct.num <= 100 * report.value.missing_pct.den
        /\ AbsentHours(timeseries["athabasca"]) = {} => report.value.missing_pct.num = 0

====
